---- MODULE Spec2Model ----
(***************************************************************************)
(* Order placement and inventory consistency of the bookstore API.         *)
(*                                                                         *)
(* The store is the relational database behind Prisma: committed rows,     *)
(* per-transaction pending writes, and row locks taken by UPDATE and held  *)
(* until COMMIT / ROLLBACK.  A plain SELECT takes no lock and sees the     *)
(* committed rows plus the transaction's own pending writes.  Every        *)
(* awaited Prisma call is one step; the synchronous code between two       *)
(* awaits belongs to the step of the call that precedes it.                *)
(***************************************************************************)
EXTENDS Integers, Sequences, FiniteSets, TLC

\* ------------------------------------------------------------------ bounds
MaxQty == 2
InitStock == 3
MaxRequests == 2
MaxReads == 1
MaxBookOps == 1
MaxGenreOps == 2

\* ------------------------------------------------------------- vocabulary
Clients == {"p1", "p2"}
Users == {"u1", "u2"}
BookIds == {"b1", "b2", "b3", "b4"}
GenreIds == {"g1", "g2", "g3"}
NoUser == "-"

\* A string is a sequence of characters; ":" is the character the error
\* messages are joined and split on.  Numbers print as one token.
COLON == ":"
TitleA == <<"A">>
TitleAB == <<"A", COLON, "B">>
TitleC == <<"C">>
TitleD == <<"D">>

\* quantities are carried in halves so that 1.5 is a value: 3 halves
Whole(n) == 2 * n
IsInteger(h) == h % 2 = 0
NumStr(h) == IF IsInteger(h) THEN <<ToString(h \div 2)>>
             ELSE <<ToString(h \div 2), ".", "5">>

VARIABLES
  variant,   \* which createTransaction of transaction.controller.ts is deployed
  guarded,   \* whether the deployed book router applies the auth guard
  dupcheck,  \* whether the deployed genre service checks the name on update
  books,     \* committed rows of the books table
  orders,    \* committed orders, each with its order items, oldest first
  lock,      \* row lock of each book row: the holder, or "-"
  req,       \* the request each client is serving
  pc,        \* each client's position in createTransaction
  idx,       \* index of the item the loop of the transaction callback is at
  pend,      \* per client: stock decrements written but not yet committed
  acc,       \* per client: the orderItems array accumulated so far
  err,       \* per client: message of the exception thrown, <<>> if none
  resp,      \* per client: the response sent for the current request
  calls,     \* per client: database calls issued for the current request
  looked,    \* per client: book ids looked up, in order
  before,    \* per client: committed stock and order count when the request began
  sent,      \* per client: responses sent for the current request
  opened,    \* per client: transactions opened for the current request
  started,   \* number of requests started so far
  seen,      \* per client: price of the book the last lookup returned
  rpc,       \* the reader's position in its handler
  view,      \* the response the reader is assembling from its queries
  reads,     \* number of read requests started so far
  genres,    \* rows of the genres table
  aop,       \* the book write request being served, with its position
  ares,      \* the response sent for it
  bookOps,   \* number of book write requests started so far
  gop,       \* the genre request being served, with its position
  gres,      \* the response sent for it
  genreOps   \* number of genre requests started so far

vars == <<variant, guarded, dupcheck, books, orders, lock, req, pc, idx, pend,
          acc, err, resp, calls, looked, before, sent, opened, started, seen,
          rpc, view, reads, genres, aop, ares, bookOps, gop, gres, genreOps>>
cfgVars == <<variant, guarded, dupcheck>>
readerVars == <<rpc, view, reads>>
adminVars == <<aop, ares, bookOps>>
genreVars == <<gop, gres, genreOps>>
others == <<readerVars, genres, adminVars, genreVars>>

\* ------------------------------------------------------- request bodies
\* JSON values keep their type tag: the validation inspects typeof.
StrVal(s) == [t |-> "string", s |-> s]
NotStr(t) == [t |-> t, s |-> ""]
NumVal(h) == [t |-> "number", h |-> h]
NotNum(t) == [t |-> t, h |-> 0]
Item(id, h) == [book_id |-> StrVal(id), quantity |-> NumVal(h)]
ArrayOf(a) == [t |-> "array", a |-> a]
NotArray(t) == [t |-> t, a |-> <<>>]

\* String.prototype.trim() === '' on the strings used as ids
Blank(s) == s \in {"", " "}

\* ------------------------------------------------------------ responses
NoResp == [status |-> 0, text |-> "", a |-> <<>>, b |-> <<>>, c |-> <<>>]
Resp(status, text) == [status |-> status, text |-> text, a |-> <<>>, b |-> <<>>, c |-> <<>>]

\* ------------------------------------------------------------ authGuard
\* hdr?.startsWith('Bearer ') and jwt.verify: a token is absent ("none"),
\* fails verification ("bad"), or verifies to a payload carrying a user id.
AuthGuard(token) ==
  IF token = "none" THEN Resp(401, "Authentication required. Please login first.")
  ELSE IF token \notin Users THEN Resp(401, "Invalid token")
  ELSE Resp(0, "next")

\* ------------------------------------------------- validation of items
BadBookId(item) ==
  \/ item.book_id.t # "string"
  \/ item.book_id.s = ""
  \/ Blank(item.book_id.s)

\* typeof quantity !== 'number' || !Number.isFinite(quantity) || quantity < 1
BadQuantity(item) ==
  \/ item.quantity.t # "number"
  \/ item.quantity.h < Whole(1)

\* !Number.isInteger(quantity)
NotIntegerQuantity(item) ==
  \/ item.quantity.t # "number"
  \/ ~IsInteger(item.quantity.h)

BadItem1(item) == BadBookId(item) \/ BadQuantity(item)
BadItem2(item) == BadBookId(item) \/ NotIntegerQuantity(item) \/ BadQuantity(item)

\* Index at which the validation loop returns, 0 if it runs to its end
Least(S) == IF S = {} THEN 0 ELSE CHOOSE i \in S : \A j \in S : i <= j
FirstBad1(a) == Least({i \in 1..Len(a) : BadItem1(a[i])})
FirstBad2(a) == Least({i \in 1..Len(a) : BadItem2(a[i])})

\* Lines 25-39: the first variant
Validate1(items) ==
  IF items.t # "array" \/ Len(items.a) = 0
  THEN Resp(400, "Items are required and must be a non-empty array")
  ELSE LET i == FirstBad1(items.a) IN
       IF i = 0 THEN Resp(0, "valid")
       ELSE IF BadBookId(items.a[i]) THEN Resp(400, "Invalid book_id")
       ELSE Resp(400, "Invalid quantity (must be a number >= 1)")

\* Lines 312-332: the second variant
Validate2(items) ==
  IF items.t # "array" \/ Len(items.a) = 0
  THEN Resp(400, "Items are required and must be a non-empty array")
  ELSE LET i == FirstBad2(items.a) IN
       IF i = 0 THEN Resp(0, "valid")
       ELSE IF BadBookId(items.a[i]) THEN Resp(400, "Invalid book_id")
       ELSE IF NotIntegerQuantity(items.a[i]) THEN Resp(422, "Quantity must be integer (not float)")
       ELSE Resp(422, "Invalid quantity (must be integer >= 1)")

Validate(v, items) == IF v = 1 THEN Validate1(items) ELSE Validate2(items)

\* --------------------------------------------------- error messages
\* `BOOK_NOT_FOUND:${item.book_id}`
BookNotFoundMsg(id) == <<"BOOK_NOT_FOUND", COLON, id>>
\* `INSUFFICIENT_STOCK:${book.title}:${book.stock_quantity}:${item.quantity}`
InsufficientStockMsg(title, stock, h) ==
  <<"INSUFFICIENT_STOCK", COLON>> \o title \o <<COLON, ToString(stock), COLON>> \o NumStr(h)
\* an exception of the store or of the Prisma client
StoreErrorMsg == <<"PrismaClientError">>

\* String.prototype.split(':')
RECURSIVE SplitFrom(_, _, _)
SplitFrom(s, i, cur) ==
  IF i > Len(s) THEN <<cur>>
  ELSE IF s[i] = COLON THEN <<cur>> \o SplitFrom(s, i + 1, <<>>)
  ELSE SplitFrom(s, i + 1, Append(cur, s[i]))
Split(s) == SplitFrom(s, 1, <<>>)

\* parts[i] of a JavaScript array (0-based); undefined prints as "undefined"
Part(parts, i) == IF i + 1 <= Len(parts) THEN parts[i + 1] ELSE <<"undefined">>

\* a catch block that reports success
MutCatchResponse(msg) == Resp(201, "Transaction created successfully")
\* The catch block, lines 107-121
CatchResponse(msg) ==
  IF msg[1] = "BOOK_NOT_FOUND"
  THEN [Resp(404, "Book not found") EXCEPT !.a = Part(Split(msg), 1)]
  ELSE IF msg[1] = "INSUFFICIENT_STOCK"
  THEN LET parts == Split(msg) IN
       [Resp(400, "Insufficient stock") EXCEPT
          !.a = Part(parts, 1), !.b = Part(parts, 2), !.c = Part(parts, 3)]
  ELSE Resp(500, "Internal server error")

\* ------------------------------------------------------------ the store
NoLock == "-"
NoPend == [b \in BookIds |-> 0]
Row(title, stock, price, genre, deleted) ==
  [exists |-> TRUE, title |-> title, stock |-> stock, price |-> price,
   genre_id |-> genre, deleted |-> deleted]
NoRow == [exists |-> FALSE, title |-> <<>>, stock |-> 0, price |-> 0,
          genre_id |-> "-", deleted |-> FALSE]

\* committed stock of every row, as one value
StockOf(bs) == [b \in BookIds |-> bs[b].stock]
\* the soft-deleted rows: deleted_at is set
Hidden(bs) == {b \in BookIds : bs[b].exists /\ bs[b].deleted}

\* tx.books.findFirst({ where: { id, deleted_at: null } })   (first variant)
FindFirst(bs, id) == id \in BookIds /\ bs[id].exists /\ ~bs[id].deleted
\* tx.book.findUnique({ where: { id } })                     (second variant)
FindUnique(bs, id) == id \in BookIds /\ bs[id].exists
Lookup(v, bs, id) == IF v = 1 THEN FindFirst(bs, id) ELSE FindUnique(bs, id)

\* book.stock_quantity < item.quantity
StockShort(stock, h) == Whole(stock) < h

\* a decrement by one whatever the quantity
MutDecrement(stock, q) == stock - 1
\* data: { stock_quantity: { decrement: item.quantity } }
Decrement(stock, q) == stock - q

\* the user taken from the body when it names one
MutUserIdOf(r) == IF r.user_id \in Users THEN r.user_id ELSE r.token
\* priceAtPurchase: book.price in the second variant; the order_items of the
\* first variant have no price column
PriceSnapshot(v, price) == IF v = 2 THEN price ELSE 0

\* const userId = req.user.id, the payload authGuard stored on the request
UserIdOf(r) == r.token

\* a commit that loses the decrements
MutApplyPending(bs, pd) == bs
\* the rows a transaction writes at COMMIT: its decrements applied to the
\* rows it holds locked
ApplyPending(bs, pd) ==
  [b \in BookIds |-> [bs[b] EXCEPT !.stock = Decrement(bs[b].stock, pd[b])]]

\* a rollback that keeps the writes
MutDropPending(bs, pd) == ApplyPending(bs, pd)
\* the rows after ROLLBACK: every write issued on tx is dropped
DropPending(bs, pd) == bs

Release(lk, p) == [b \in BookIds |-> IF lk[b] = p THEN NoLock ELSE lk[b]]

\* ------------------------------------------------------ createTransaction
Serving(p) == pc[p] \notin {"idle", "done"}
CurItem(p) == req[p].items.a[idx[p]]
CurId(p) == CurItem(p).book_id.s
CurQty(p) == CurItem(p).quantity.h

Answer(p, r) ==
  /\ resp' = [resp EXCEPT ![p] = r]
  /\ sent' = [sent EXCEPT ![p] = @ + 1]
  /\ pc' = [pc EXCEPT ![p] = "done"]

\* POST /transactions arrives: authGuard, then lines 19-42 up to the await of
\* prisma.$transaction
CreateTransaction(p, r) ==
  /\ ~Serving(p)
  /\ started < MaxRequests
  /\ started' = started + 1
  /\ req' = [req EXCEPT ![p] = r]
  /\ idx' = [idx EXCEPT ![p] = 1]
  /\ acc' = [acc EXCEPT ![p] = <<>>]
  /\ err' = [err EXCEPT ![p] = <<>>]
  /\ looked' = [looked EXCEPT ![p] = <<>>]
  /\ before' = [before EXCEPT ![p] = [stock |-> StockOf(books), n |-> Len(orders),
                                       hidden |-> Hidden(books)]]
  /\ seen' = [seen EXCEPT ![p] = 0]
  /\ LET g == AuthGuard(r.token)
         v == Validate(variant, r.items)
         early == IF g.status # 0 THEN g ELSE v
     IN IF early.status # 0
        THEN /\ resp' = [resp EXCEPT ![p] = early]
             /\ sent' = [sent EXCEPT ![p] = 1]
             /\ pc' = [pc EXCEPT ![p] = "done"]
             /\ calls' = [calls EXCEPT ![p] = 0]
             /\ opened' = [opened EXCEPT ![p] = 0]
        ELSE /\ resp' = [resp EXCEPT ![p] = NoResp]
             /\ sent' = [sent EXCEPT ![p] = 0]
             /\ pc' = [pc EXCEPT ![p] = "find"]
             /\ calls' = [calls EXCEPT ![p] = 1]
             /\ opened' = [opened EXCEPT ![p] = 1]
  /\ UNCHANGED <<cfgVars, books, orders, lock, pend, others>>

Throw(p, msg) ==
  /\ err' = [err EXCEPT ![p] = msg]
  /\ pc' = [pc EXCEPT ![p] = "rollback"]

\* a lookup that reads the committed row only
MutStockRead(bs, pd, id) == bs[id].stock
\* tx.books.findFirst: the committed row with the transaction's own writes
StockRead(bs, pd, id) == Decrement(bs[id].stock, pd[id])

\* Lines 46-60: look the book up and compare its stock
FindBook(p) ==
  /\ pc[p] = "find"
  /\ calls' = [calls EXCEPT ![p] = @ + 1]
  /\ looked' = [looked EXCEPT ![p] = Append(@, CurId(p))]
  /\ seen' = [seen EXCEPT ![p] =
                IF Lookup(variant, books, CurId(p)) THEN books[CurId(p)].price ELSE @]
  /\ IF ~Lookup(variant, books, CurId(p))
     THEN Throw(p, BookNotFoundMsg(CurId(p)))
     ELSE LET stock == StockRead(books, pend[p], CurId(p)) IN
          IF StockShort(stock, CurQty(p))
          THEN Throw(p, InsufficientStockMsg(books[CurId(p)].title, stock, CurQty(p)))
          ELSE pc' = [pc EXCEPT ![p] = "update"] /\ err' = err
  /\ UNCHANGED <<cfgVars, books, orders, lock, req, idx, pend, acc,
                 resp, before, started, sent, opened, others>>

\* Lines 63-71: decrement the stock and push the order item.  The stock
\* column is an Int: the client refuses a fractional decrement.  The UPDATE
\* waits while another transaction holds the row.
UpdateStock(p) ==
  /\ pc[p] = "update"
  /\ IF ~IsInteger(CurQty(p))
     THEN /\ Throw(p, StoreErrorMsg)
          /\ UNCHANGED <<lock, pend, acc, idx, calls>>
     ELSE /\ lock[CurId(p)] \in {NoLock, p}
          /\ lock' = [lock EXCEPT ![CurId(p)] = p]
          /\ pend' = [pend EXCEPT ![p][CurId(p)] = @ + CurQty(p) \div 2]
          /\ acc' = [acc EXCEPT ![p] =
                       Append(@, [book_id |-> CurId(p), quantity |-> CurQty(p) \div 2,
                                  priceAtPurchase |-> PriceSnapshot(variant, seen[p])])]
          /\ idx' = [idx EXCEPT ![p] = @ + 1]
          /\ calls' = [calls EXCEPT ![p] = @ + 1]
          /\ pc' = [pc EXCEPT ![p] =
                      IF idx[p] = Len(req[p].items.a) THEN "create" ELSE "find"]
          /\ err' = err
  /\ UNCHANGED <<cfgVars, seen, books, orders, req, resp, looked, before,
                 started, sent, opened, others>>

\* Lines 75-100: tx.orders.create with the nested order_items
NewOrder(p) ==
  [rid |-> req[p].rid, user_id |-> UserIdOf(req[p]), order_items |-> acc[p]]

\* an order created through the shared client, outside the transaction
MutCreateOrder(p) ==
  /\ pc[p] = "create"
  /\ pc' = [pc EXCEPT ![p] = "commit"]
  /\ calls' = [calls EXCEPT ![p] = @ + 1]
  /\ orders' = Append(orders, NewOrder(p))
  /\ UNCHANGED <<cfgVars, seen, books, lock, req, idx, pend, acc,
                 err, resp, looked, before, started, sent, opened, others>>
CreateOrder(p) ==
  /\ pc[p] = "create"
  /\ pc' = [pc EXCEPT ![p] = "commit"]
  /\ calls' = [calls EXCEPT ![p] = @ + 1]
  /\ UNCHANGED <<cfgVars, seen, books, orders, lock, req, idx, pend, acc,
                 err, resp, looked, before, started, sent, opened, others>>

\* Lines 102-105: the callback returns, the transaction commits, 201 is sent
TxCommit(p) ==
  /\ pc[p] = "commit"
  /\ books' = ApplyPending(books, pend[p])
  /\ orders' = Append(orders, NewOrder(p))
  /\ lock' = Release(lock, p)
  /\ pend' = [pend EXCEPT ![p] = NoPend]
  /\ calls' = [calls EXCEPT ![p] = @ + 1]
  /\ Answer(p, Resp(201, "Transaction created successfully"))
  /\ UNCHANGED <<cfgVars, seen, req, idx, acc, err, looked, before, started, opened, others>>

\* The callback threw: the transaction rolls back and the catch block answers
TxRollback(p) ==
  /\ pc[p] = "rollback"
  /\ lock' = Release(lock, p)
  /\ pend' = [pend EXCEPT ![p] = NoPend]
  /\ books' = DropPending(books, pend[p])
  /\ Answer(p, CatchResponse(err[p]))
  /\ UNCHANGED <<cfgVars, seen, orders, req, idx, acc, err, calls,
                 looked, before, started, opened, others>>

\* A database call of the transaction fails in the store (connection lost,
\* deadlock victim, transaction timeout): the call throws
StoreFails(p) ==
  /\ pc[p] \in {"find", "update", "create", "commit"}
  /\ Throw(p, StoreErrorMsg)
  /\ UNCHANGED <<cfgVars, seen, books, orders, lock, req, idx, pend, acc,
                 resp, calls, looked, before, started, sent, opened, others>>

\* ------------------------------------------------------------- requests
Quantities == {Whole(q) : q \in 1..MaxQty}
NoRequest == [rid |-> 0, token |-> "none", user_id |-> NoUser, items |-> NotArray("undefined")]
Request(rid, token, uid, items) ==
  [rid |-> rid, token |-> token, user_id |-> uid, items |-> items]

OneItem(ids, qs) == {ArrayOf(<<Item(id, h)>>) : id \in ids, h \in qs}
TwoItems(ids, qs) ==
  {ArrayOf(<<Item(i1, h1), Item(i2, h2)>>) : i1 \in ids, i2 \in ids, h1 \in qs, h2 \in qs}

\* two clients, each logged in as its own user, ordering the books on sale
TokenOf(p) == IF p = "p1" THEN "u1" ELSE "u2"
RaceBodies == OneItem({"b1", "b2"}, Quantities) \cup TwoItems({"b1", "b2"}, {Whole(1)})

\* ---------------------------------------------------------------- readers
\* The read handlers run on the shared client, outside any transaction:
\* each query sees the committed rows only.
clientVars == <<req, pc, idx, pend, acc, err, resp, calls, looked, before,
                sent, opened, started, seen>>

\* the sentinel of the statistics when no genre has sales
NoData == [genreName |-> "No data", totalSold |-> 0, totalRevenue |-> 0]

\* The response under assembly.  counted are the rows the count query
\* counted.  hidden, prices and inflight record the store as the last query
\* found it: the soft-deleted books, the price of every book, and whether a
\* transaction held an uncommitted decrement.
\* --- the query string of GET /books, book.controller.ts lines 79-115
\* The handler reads page, limit, search, orderByTitle and
\* orderByPublishDate; every other parameter of the query string is carried
\* by the request and read by nothing.
NoQuery == [search |-> <<>>, orderByTitle |-> "", orderByPublishDate |-> "",
            title |-> <<>>, genre_id |-> "", min_price |-> NotNum("undefined"),
            max_price |-> NotNum("undefined"), sort_by |-> "", order |-> ""]
Lower(c) ==
  CASE c = "A" -> "a" [] c = "B" -> "b" [] c = "C" -> "c" [] c = "D" -> "d"
    [] c = "P" -> "p" [] c = "W" -> "w" [] OTHER -> c
LowerStr(str) == [i \in 1..Len(str) |-> Lower(str[i])]
\* { contains: search, mode: 'insensitive' }
Contains(str, part) ==
  \E i \in 1..(Len(str) - Len(part) + 1) :
     SubSeq(LowerStr(str), i, i + Len(part) - 1) = LowerStr(part)
\* the columns no request of the model writes: the same for every row but b2
Writer(b) == IF b = "b2" THEN <<"W", "B">> ELSE <<"W">>
Publisher(b) == <<"P">>
PublicationYear(b) ==
  CASE b = "b1" -> 2001 [] b = "b2" -> 1999 [] b = "b3" -> 2005 [] b = "b4" -> 2010
\* where = { deleted_at: null, OR: [title, writer, publisher contains search] }
Where(bs, q) ==
  {b \in BookIds :
     /\ bs[b].exists /\ ~bs[b].deleted
     /\ q.search # <<>> =>
          \/ Contains(bs[b].title, q.search)
          \/ Contains(Writer(b), q.search)
          \/ Contains(Publisher(b), q.search)}
CharNo(c) ==
  CASE c = ":" -> 1 [] c = "A" -> 2 [] c = "B" -> 3 [] c = "C" -> 4 [] c = "D" -> 5
    [] OTHER -> 6
RECURSIVE StrLess(_, _)
StrLess(a, b) ==
  IF a = <<>> THEN b # <<>>
  ELSE IF b = <<>> THEN FALSE
  ELSE IF Head(a) = Head(b) THEN StrLess(Tail(a), Tail(b))
  ELSE CharNo(Head(a)) < CharNo(Head(b))
\* orderByTitle === 'asc' ? 'asc' : 'desc'
Direction(param) == IF param = "asc" THEN "asc" ELSE "desc"
\* orderBy: title first, then publication_year; titles are unique
Precedes(bs, q, a, b) ==
  IF q.orderByTitle # ""
  THEN IF Direction(q.orderByTitle) = "asc" THEN StrLess(bs[a].title, bs[b].title)
       ELSE StrLess(bs[b].title, bs[a].title)
  ELSE IF Direction(q.orderByPublishDate) = "asc"
       THEN PublicationYear(a) < PublicationYear(b)
       ELSE PublicationYear(b) < PublicationYear(a)
RECURSIVE SortBy(_, _, _)
SortBy(bs, q, S) ==
  IF S = {} THEN <<>>
  ELSE LET first == CHOOSE a \in S : \A b \in S \ {a} : Precedes(bs, q, a, b)
       IN <<first>> \o SortBy(bs, q, S \ {first})

NoView == [kind |-> "none", token |-> "none", status |-> 0, total |-> 0,
           query |-> NoQuery,
           rows |-> {}, stock |-> [b \in BookIds |-> 0], n |-> 0,
           inflight |-> FALSE, page |-> 1, limit |-> 10, items |-> <<>>,
           pages |-> 0, genre |-> "-", hidden |-> {}, counted |-> {},
           revenue |-> 0, avg |-> 0, most |-> NoData, least |-> NoData,
           prices |-> [b \in BookIds |-> 0]]

\* some transaction holds a decrement it has not committed
InFlight == \E p \in Clients, b \in BookIds : pend[p][b] > 0

\* a read that sees the uncommitted writes of every open transaction
MutQueryRows ==
  [b \in BookIds |->
     [books[b] EXCEPT !.stock = Decrement(Decrement(@, pend["p1"][b]), pend["p2"][b])]]
\* rows a query of the shared client reads
QueryRows == books
\* where: { deleted_at: null }
Listed(bs) == {b \in BookIds : bs[b].exists /\ ~bs[b].deleted}
\* where: { genre_id, deleted_at: null }
ListedIn(bs, g) == {b \in Listed(bs) : bs[b].genre_id = g}
PricesOf(bs) == [b \in BookIds |-> bs[b].price]
\* books joined to the order items of the first n orders
RowsOfOrders(os, n) ==
  UNION {{os[k].order_items[i].book_id : i \in 1..Len(os[k].order_items)} :
           k \in 1..n}
  \cap BookIds
\* the books router: whether a request reaches the handler
BooksGuard(token) == IF guarded THEN AuthGuard(token) ELSE Resp(0, "next")

\* --- pagination
\* orderBy: { created_at: 'desc' }: ids are handed out in creation order
CreatedDesc == <<"b4", "b3", "b2", "b1">>
SortedRows(S) == SelectSeq(CreatedDesc, LAMBDA b : b \in S)
\* the orders newest first, by their position in the table
NewestFirst(n) == [i \in 1..n |-> n + 1 - i]
Min(a, b) == IF a < b THEN a ELSE b
\* a page that skips page * limit rows
MutPage(seq, page, limit) ==
  SubSeq(seq, page * limit + 1, Min((page + 1) * limit, Len(seq)))
\* skip: (page - 1) * limit, take: limit
Page(seq, page, limit) ==
  SubSeq(seq, (page - 1) * limit + 1, Min(page * limit, Len(seq)))
\* Math.ceil(total / limit)
CeilDiv(total, limit) == (total + limit - 1) \div limit
Range(seq) == {seq[i] : i \in 1..Len(seq)}

StartView(where, v) ==
  /\ rpc = "idle"
  /\ reads < MaxReads
  /\ reads' = reads + 1
  /\ view' = v
  /\ rpc' = where
  /\ UNCHANGED <<cfgVars, books, orders, lock, clientVars, genres, adminVars, genreVars>>
StartPaged(kind, token, where, rows, page, limit) ==
  StartView(where, [NoView EXCEPT !.kind = kind, !.token = token, !.rows = rows,
                                  !.page = page, !.limit = limit])
\* page = '1', limit = '10'
StartRead(kind, token, where, rows) == StartPaged(kind, token, where, rows, 1, 10)

Denied(kind, token, g) ==
  /\ rpc = "idle"
  /\ reads < MaxReads
  /\ reads' = reads + 1
  /\ view' = [NoView EXCEPT !.kind = "denied", !.token = token, !.status = g.status]
  /\ rpc' = "idle"
  /\ UNCHANGED <<cfgVars, books, orders, lock, clientVars, genres, adminVars, genreVars>>

ReadStep(from, to, v) ==
  /\ rpc = from
  /\ rpc' = to
  /\ view' = v
  /\ UNCHANGED <<cfgVars, books, orders, lock, clientVars, reads, genres, adminVars, genreVars>>

\* orderBy, with created_at desc when no order is given
OrderBy(bs, q, S) ==
  IF q.orderByTitle = "" /\ q.orderByPublishDate = "" THEN SortedRows(S)
  ELSE SortBy(bs, q, S)
\* GET /books, book.controller.ts lines 77-147
GetBooksQuery(token, q) ==
  IF BooksGuard(token).status # 0 THEN Denied("getBooks", token, BooksGuard(token))
  ELSE StartView("books.count", [NoView EXCEPT !.kind = "getBooks", !.token = token,
                                               !.query = q])
GetBooksPage(token, page, limit) ==
  IF BooksGuard(token).status # 0 THEN Denied("getBooks", token, BooksGuard(token))
  ELSE StartPaged("getBooks", token, "books.count", {}, page, limit)
GetBooks(token) == GetBooksPage(token, 1, 10)
GetBooksCount ==
  ReadStep("books.count", "books.findMany",
           [view EXCEPT !.total = Cardinality(Where(QueryRows, view.query)),
                        !.counted = Where(QueryRows, view.query),
                        !.hidden = Hidden(QueryRows)])
GetBooksFindMany ==
  LET found == Where(QueryRows, view.query)
      items == Page(OrderBy(QueryRows, view.query, found), view.page, view.limit) IN
  ReadStep("books.findMany", "idle",
           [view EXCEPT !.status = 200, !.items = items, !.rows = Range(items),
                        !.pages = CeilDiv(view.total, view.limit),
                        !.hidden = Hidden(QueryRows),
                        !.stock = StockOf(QueryRows), !.inflight = InFlight])

\* GET /books/genre/:genre_id, lines 175-252
GetBooksByGenre(token, g, page, limit) ==
  IF BooksGuard(token).status # 0 THEN Denied("getBooksByGenre", token, BooksGuard(token))
  ELSE StartView("bygenre.findUnique",
                 [NoView EXCEPT !.kind = "getBooksByGenre", !.token = token,
                                !.genre = g, !.page = page, !.limit = limit])
ByGenreFindUnique ==
  IF view.genre \in GenreIds /\ genres[view.genre].exists
  THEN ReadStep("bygenre.findUnique", "bygenre.count", view)
  ELSE ReadStep("bygenre.findUnique", "idle", [view EXCEPT !.status = 404])
ByGenreCount ==
  ReadStep("bygenre.count", "bygenre.findMany",
           [view EXCEPT !.total = Cardinality(ListedIn(QueryRows, view.genre)),
                        !.counted = ListedIn(QueryRows, view.genre),
                        !.hidden = Hidden(QueryRows)])
ByGenreFindMany ==
  LET items == Page(SortedRows(ListedIn(QueryRows, view.genre)), view.page, view.limit) IN
  ReadStep("bygenre.findMany", "idle",
           [view EXCEPT !.status = 200, !.items = items, !.rows = Range(items),
                        !.pages = CeilDiv(view.total, view.limit),
                        !.hidden = Hidden(QueryRows),
                        !.stock = StockOf(QueryRows), !.inflight = InFlight])

\* GET /books/:book_id, lines 150-172
GetBookById(token, id) ==
  IF BooksGuard(token).status # 0 THEN Denied("getBookById", token, BooksGuard(token))
  ELSE StartRead("getBookById", token, "books.findFirst", {id} \cap BookIds)
GetBookByIdFindFirst ==
  ReadStep("books.findFirst", "idle",
           IF view.rows \cap Listed(QueryRows) = {}
           THEN [view EXCEPT !.status = 404, !.hidden = view.rows \cap Hidden(QueryRows),
                             !.rows = {}]
           ELSE [view EXCEPT !.status = 200, !.hidden = Hidden(QueryRows),
                             !.stock = StockOf(QueryRows), !.inflight = InFlight])

\* GET /transactions, transaction.controller.ts lines 124-172
GetAllTransactionsPage(token, page, limit) ==
  IF AuthGuard(token).status # 0
  THEN Denied("getAllTransactions", token, AuthGuard(token))
  ELSE StartPaged("getAllTransactions", token, "orders.findMany", {}, page, limit)
GetAllTransactions(token) == GetAllTransactionsPage(token, 1, 10)
GetAllTransactionsFindMany ==
  ReadStep("orders.findMany", "orders.count",
           [view EXCEPT !.n = Len(orders),
                        !.items = Page(NewestFirst(Len(orders)), view.page, view.limit),
                        !.rows = RowsOfOrders(orders, Len(orders)),
                        !.stock = StockOf(QueryRows), !.inflight = InFlight])
GetAllTransactionsCount ==
  ReadStep("orders.count", "idle",
           [view EXCEPT !.status = 200, !.total = Len(orders),
                        !.pages = CeilDiv(Len(orders), view.limit)])

\* --- statistics, transaction.controller.ts lines 212-286 and 540-647
\* every order item of the first n orders, in insertion order
RECURSIVE AllItems(_, _)
AllItems(os, n) == IF n = 0 THEN <<>> ELSE AllItems(os, n - 1) \o os[n].order_items
\* item.book.price in the first variant, detail.priceAtPurchase in the second
ItemPrice(v, it, bs) == IF v = 1 THEN bs[it.book_id].price ELSE it.priceAtPurchase
ItemRevenue(v, it, bs) == it.quantity * ItemPrice(v, it, bs)
RECURSIVE Revenue(_, _, _, _)
Revenue(v, items, n, bs) ==
  IF n = 0 THEN 0 ELSE Revenue(v, items, n - 1, bs) + ItemRevenue(v, items[n], bs)
\* genreStats after the first n items, as Object.values lists it: one entry
\* per genre, in the order the genres were first met
RECURSIVE GenreStats(_, _, _, _, _)
GenreStats(v, items, n, bs, gs) ==
  IF n = 0 THEN <<>>
  ELSE LET prev == GenreStats(v, items, n - 1, bs, gs)
           it == items[n]
           g == bs[it.book_id].genre_id
           at == {i \in 1..Len(prev) : prev[i].genreId = g}
       IN IF at = {}
          THEN Append(prev, [genreId |-> g, genreName |-> gs[g].name,
                             totalSold |-> it.quantity,
                             totalRevenue |-> ItemRevenue(v, it, bs)])
          ELSE [i \in 1..Len(prev) |->
                  IF i \in at
                  THEN [prev[i] EXCEPT !.totalSold = @ + it.quantity,
                                       !.totalRevenue = @ + ItemRevenue(v, it, bs)]
                  ELSE prev[i]]
\* a reduce that lets a later genre win a tie
RECURSIVE MutReduceMost(_, _)
MutReduceMost(arr, n) ==
  IF n = 1 THEN arr[1]
  ELSE LET max == MutReduceMost(arr, n - 1) IN
       IF arr[n].totalSold >= max.totalSold THEN arr[n] ELSE max
\* reduce((max, genre) => genre.totalSold > max.totalSold ? genre : max)
RECURSIVE ReduceMost(_, _)
ReduceMost(arr, n) ==
  IF n = 1 THEN arr[1]
  ELSE LET max == ReduceMost(arr, n - 1) IN
       IF arr[n].totalSold > max.totalSold THEN arr[n] ELSE max
\* reduce((min, genre) => genre.totalSold < min.totalSold ? genre : min)
RECURSIVE ReduceLeast(_, _)
ReduceLeast(arr, n) ==
  IF n = 1 THEN arr[1]
  ELSE LET min == ReduceLeast(arr, n - 1) IN
       IF arr[n].totalSold < min.totalSold THEN arr[n] ELSE min
Entry(r) == [genreName |-> r.genreName, totalSold |-> r.totalSold,
             totalRevenue |-> r.totalRevenue]
GenreWithMostSales(arr) == IF Len(arr) > 0 THEN Entry(ReduceMost(arr, Len(arr))) ELSE NoData
GenreWithLeastSales(arr) == IF Len(arr) > 0 THEN Entry(ReduceLeast(arr, Len(arr))) ELSE NoData
\* Math.round of a non-negative quotient
Round(n, d) == (2 * n + d) \div (2 * d)
\* an average cut off instead of rounded
MutAverage(revenue, total) == IF total > 0 THEN revenue \div total ELSE 0
\* totalOrders > 0 ? Math.round(totalRevenue / totalOrders) : 0
Average(revenue, total) == IF total > 0 THEN Round(revenue, total) ELSE 0

GetTransactionStatistics(token) ==
  IF AuthGuard(token).status # 0
  THEN Denied("getTransactionStatistics", token, AuthGuard(token))
  ELSE StartRead("getTransactionStatistics", token, "stats.count", {})
\* prisma.orders.count() in the first variant; in the second the aggregate
\* of count, sum and average of totalAmount
StatisticsCount ==
  LET items == AllItems(orders, Len(orders))
      sum == Revenue(2, items, Len(items), QueryRows)
  IN ReadStep("stats.count", "stats.findMany",
              IF variant = 1 THEN [view EXCEPT !.total = Len(orders)]
              ELSE [view EXCEPT !.total = Len(orders), !.revenue = sum,
                                !.avg = Average(sum, Len(orders))])
StatisticsFindMany ==
  LET items == AllItems(orders, Len(orders))
      arr == GenreStats(variant, items, Len(items), QueryRows, genres)
      sum == Revenue(1, items, Len(items), QueryRows)
  IN ReadStep("stats.findMany", "idle",
              [view EXCEPT !.status = 200, !.n = Len(orders),
                           !.revenue = IF variant = 1 THEN sum ELSE @,
                           !.avg = IF variant = 1 THEN Average(sum, view.total) ELSE @,
                           !.most = GenreWithMostSales(arr),
                           !.least = GenreWithLeastSales(arr),
                           !.prices = PricesOf(QueryRows),
                           !.rows = RowsOfOrders(orders, Len(orders)),
                           !.stock = StockOf(QueryRows), !.inflight = InFlight])

ReadQuery ==
  \/ GetBooksCount
  \/ GetBooksFindMany
  \/ GetBookByIdFindFirst
  \/ GetAllTransactionsFindMany
  \/ GetAllTransactionsCount
  \/ StatisticsCount
  \/ StatisticsFindMany

\* ---------------------------------------------------------- book writes
\* The book handlers run on the shared client: every call commits on its
\* own; an UPDATE waits while a transaction holds the row.
PriceVal(n) == [t |-> "number", n |-> n]
NoPrice == [t |-> "undefined", n |-> 0]
BookBody(title, stock, price, year, genre) ==
  [title |-> title, stock |-> stock, price |-> price, year |-> year, genre_id |-> genre]
NoBody == BookBody(<<>>, NotNum("undefined"), NoPrice, "undefined", "")
\* was, n: the books table and the number of orders when the request arrived
NoOp == [op |-> "none", token |-> "none", id |-> "-", body |-> NoBody, pc |-> "idle",
         was |-> [b \in BookIds |-> NoRow], n |-> 0]

orderVars == <<orders, lock, clientVars, readerVars, genres, genreVars>>

OpIdle == aop.pc \in {"idle", "done"} /\ bookOps < MaxBookOps
StartOp(op, token, id, body, where, r) ==
  /\ OpIdle
  /\ bookOps' = bookOps + 1
  /\ aop' = [op |-> op, token |-> token, id |-> id, body |-> body, pc |-> where,
             was |-> books, n |-> Len(orders)]
  /\ ares' = r
  /\ UNCHANGED <<cfgVars, books, orderVars>>
OpStep(from, to, r, bs) ==
  /\ aop.pc = from
  /\ aop' = [aop EXCEPT !.pc = to]
  /\ ares' = r
  /\ books' = bs
  /\ UNCHANGED <<cfgVars, orderVars, bookOps>>

\* createBook lines 12-31 and updateBook lines 272-293
BadYear(body) == body.year = "future"
BadPrice(body) == body.price.t = "number" /\ body.price.n < 0
StockNotInteger(body) == body.stock.t # "number" \/ ~IsInteger(body.stock.h)
StockNegative(body) == body.stock.t = "number" /\ body.stock.h < 0
ValidateCreate(body) ==
  IF BadYear(body) THEN Resp(422, "Publication year cannot be greater than the current year")
  ELSE IF BadPrice(body) THEN Resp(422, "Price cannot be negative")
  ELSE IF StockNotInteger(body) THEN Resp(422, "Stock quantity must be an integer")
  ELSE IF StockNegative(body) THEN Resp(422, "Stock quantity cannot be negative")
  ELSE Resp(0, "valid")
ValidateUpdate(body) ==
  IF BadYear(body) THEN Resp(422, "Publication year cannot be greater than the current year")
  ELSE IF BadPrice(body) THEN Resp(422, "Price cannot be negative")
  ELSE IF body.stock.t # "undefined" /\ StockNotInteger(body)
  THEN Resp(422, "Stock quantity must be an integer")
  ELSE IF body.stock.t # "undefined" /\ StockNegative(body)
  THEN Resp(422, "Stock quantity cannot be negative")
  ELSE Resp(0, "valid")

\* findFirst({ where: { title, deleted_at: null } }), optionally id: { not }
TitleTaken(bs, title, except) ==
  \E b \in Listed(bs) \ {except} : bs[b].title = title
\* the unique index on books.title covers every row
TitleUnique(bs, title, except) ==
  \A b \in BookIds \ {except} : bs[b].exists => bs[b].title # title
\* a lookup that finds a genre for any id
MutGenreFound(g) == TRUE
\* genres.findUnique({ where: { id } })
GenreFound(g) == g \in GenreIds /\ genres[g].exists
FreeIds(bs) == {b \in BookIds : ~bs[b].exists}

\* POST /books, book.controller.ts lines 8-74
CreateBook(token, body) ==
  LET g == BooksGuard(token)
      v == ValidateCreate(body)
  IN IF g.status # 0 THEN StartOp("createBook", token, "-", body, "done", g)
     ELSE IF v.status # 0 THEN StartOp("createBook", token, "-", body, "done", v)
     ELSE StartOp("createBook", token, "-", body, "create.findFirst", NoResp)
CreateBookFindFirst ==
  IF TitleTaken(books, aop.body.title, "-")
  THEN OpStep("create.findFirst", "done", Resp(400, "Book with this title already exists"), books)
  ELSE OpStep("create.findFirst", "create.findUnique", NoResp, books)
CreateBookFindGenre ==
  IF ~GenreFound(aop.body.genre_id)
  THEN OpStep("create.findUnique", "done", Resp(404, "Genre not found"), books)
  ELSE OpStep("create.findUnique", "create.create", NoResp, books)
CreateBookCreate ==
  IF \/ aop.body.price.t # "number" \/ aop.body.year = "undefined"
     \/ ~TitleUnique(books, aop.body.title, "-")
     \/ FreeIds(books) = {}
  THEN OpStep("create.create", "done", Resp(500, "Failed to create book"), books)
  ELSE LET id == CHOOSE b \in FreeIds(books) : TRUE IN
       OpStep("create.create", "done", Resp(201, "Book created successfully"),
              [books EXCEPT ![id] = Row(aop.body.title, aop.body.stock.h \div 2,
                                        aop.body.price.n, aop.body.genre_id, FALSE)])

\* PATCH /books/:book_id, lines 255-333
AfterTitleCheck(body) ==
  IF body.genre_id # "" THEN "update.findUnique" ELSE "update.update"
Patched(row, body) ==
  [row EXCEPT
     !.title = IF body.title # <<>> THEN body.title ELSE @,
     !.stock = IF body.stock.t = "number" THEN body.stock.h \div 2 ELSE @,
     !.price = IF body.price.t = "number" THEN body.price.n ELSE @,
     !.genre_id = IF body.genre_id # "" THEN body.genre_id ELSE @]
UpdateBook(token, id, body) ==
  LET g == BooksGuard(token) IN
  IF g.status # 0 THEN StartOp("updateBook", token, id, body, "done", g)
  ELSE StartOp("updateBook", token, id, body, "update.findFirst", NoResp)
UpdateBookFindFirst ==
  LET v == ValidateUpdate(aop.body) IN
  IF aop.id \notin Listed(books)
  THEN OpStep("update.findFirst", "done", Resp(404, "Book not found"), books)
  ELSE IF v.status # 0 THEN OpStep("update.findFirst", "done", v, books)
  ELSE IF aop.body.title # <<>> /\ aop.body.title # books[aop.id].title
  THEN OpStep("update.findFirst", "update.findDuplicate", NoResp, books)
  ELSE OpStep("update.findFirst", AfterTitleCheck(aop.body), NoResp, books)
UpdateBookFindDuplicate ==
  IF TitleTaken(books, aop.body.title, aop.id)
  THEN OpStep("update.findDuplicate", "done", Resp(400, "Book with this title already exists"), books)
  ELSE OpStep("update.findDuplicate", AfterTitleCheck(aop.body), NoResp, books)
UpdateBookFindGenre ==
  IF ~GenreFound(aop.body.genre_id)
  THEN OpStep("update.findUnique", "done", Resp(404, "Genre not found"), books)
  ELSE OpStep("update.findUnique", "update.update", NoResp, books)
UpdateBookUpdate ==
  /\ aop.pc = "update.update"
  /\ lock[aop.id] = NoLock
  /\ IF aop.body.title # <<>> /\ ~TitleUnique(books, aop.body.title, aop.id)
     THEN OpStep("update.update", "done", Resp(500, "Failed to update book"), books)
     ELSE OpStep("update.update", "done", Resp(200, "Book updated successfully"),
                 [books EXCEPT ![aop.id] = Patched(@, aop.body)])

\* DELETE /books/:book_id, lines 336-363
DeleteBook(token, id) ==
  LET g == BooksGuard(token) IN
  IF g.status # 0 THEN StartOp("deleteBook", token, id, NoBody, "done", g)
  ELSE StartOp("deleteBook", token, id, NoBody, "delete.findFirst", NoResp)
DeleteBookFindFirst ==
  IF aop.id \notin Listed(books)
  THEN OpStep("delete.findFirst", "done", Resp(404, "Book not found"), books)
  ELSE OpStep("delete.findFirst", "delete.update", NoResp, books)
\* a soft delete that cascades to the order items of the book
MutDeleteBookUpdate ==
  /\ aop.pc = "delete.update"
  /\ lock[aop.id] = NoLock
  /\ aop' = [aop EXCEPT !.pc = "done"]
  /\ ares' = Resp(200, "Book deleted successfully")
  /\ books' = [books EXCEPT ![aop.id].deleted = TRUE]
  /\ orders' = [k \in 1..Len(orders) |->
                 [orders[k] EXCEPT !.order_items =
                    SelectSeq(@, LAMBDA it : it.book_id # aop.id)]]
  /\ UNCHANGED <<cfgVars, lock, clientVars, readerVars, genres, genreVars, bookOps>>
DeleteBookUpdate ==
  /\ aop.pc = "delete.update"
  /\ lock[aop.id] = NoLock
  /\ OpStep("delete.update", "done", Resp(200, "Book deleted successfully"),
            [books EXCEPT ![aop.id].deleted = TRUE])

BookWriteStep ==
  \/ CreateBookFindFirst
  \/ CreateBookFindGenre
  \/ CreateBookCreate
  \/ UpdateBookFindFirst
  \/ UpdateBookFindDuplicate
  \/ UpdateBookFindGenre
  \/ UpdateBookUpdate
  \/ DeleteBookFindFirst
  \/ DeleteBookUpdate

\* ---------------------------------------------------------------- genres
\* The genre controller and service.  The genres table has a unique index
\* on name, over every row; a Prisma error the controller does not handle
\* is rethrown out of the async handler.
GenreNames == {"N1", "N2", "N3"}
GenreRow(name, deleted) == [exists |-> TRUE, name |-> name, deleted |-> deleted]
NoGenre == [exists |-> FALSE, name |-> "", deleted |-> FALSE]
InitGenres ==
  [g \in GenreIds |->
     IF g = "g1" THEN GenreRow("N1", FALSE)
     ELSE IF g = "g2" THEN GenreRow("N2", TRUE)
     ELSE NoGenre]
\* was: the genres table when the request arrived
NoGop == [op |-> "none", id |-> "-", name |-> "", pc |-> "idle", was |-> InitGenres]

GenreIdle == gop.pc \in {"idle", "done"} /\ genreOps < MaxGenreOps
\* z.object({ name: z.string().min(1) })
InvalidName(name) == name = ""
\* the unique index on genres.name
GenreNameUnique(gs, name, except) ==
  \A g \in GenreIds \ {except} : gs[g].exists => gs[g].name # name
\* findFirst({ where: { name, deleted_at: null, NOT: { id } } })
GenreDuplicate(gs, name, id) ==
  \E g \in GenreIds \ {id} : gs[g].exists /\ ~gs[g].deleted /\ gs[g].name = name
FreeGenreIds(gs) == {g \in GenreIds : ~gs[g].exists}
\* what the caller gets when the handler rethrows: the error middleware's
\* answer, or none at all
Unhandled == {Resp(500, "Internal Server Error"), Resp(0, "no response")}

GenreOp(op, id, name, where, r, gs) ==
  /\ GenreIdle
  /\ genreOps' = genreOps + 1
  /\ gop' = [op |-> op, id |-> id, name |-> name, pc |-> where, was |-> genres]
  /\ gres' = r
  /\ genres' = gs
  /\ UNCHANGED <<cfgVars, books, orders, lock, clientVars, readerVars, adminVars>>
GenreStep(from, to, r, gs) ==
  /\ gop.pc = from
  /\ gop' = [gop EXCEPT !.pc = to]
  /\ gres' = r
  /\ genres' = gs
  /\ UNCHANGED <<cfgVars, books, orders, lock, clientVars, readerVars, adminVars,
                 genreOps>>

\* POST /genres: controller create, service create
GenreCreate(name) ==
  IF InvalidName(name) THEN GenreOp("create", "-", name, "done", Resp(400, "Invalid body"), genres)
  ELSE IF ~GenreNameUnique(genres, name, "-")
  THEN GenreOp("create", "-", name, "done", Resp(409, "Genre already exists"), genres)
  ELSE /\ FreeGenreIds(genres) # {}
       /\ LET id == CHOOSE g \in FreeGenreIds(genres) : TRUE IN
          GenreOp("create", id, name, "done", Resp(201, "Genre created"),
                  [genres EXCEPT ![id] = GenreRow(name, FALSE)])

\* PATCH /genres/:id: controller update, service update
GenreUpdate(id, name) ==
  IF InvalidName(name) THEN GenreOp("update", id, name, "done", Resp(400, "Invalid body"), genres)
  ELSE GenreOp("update", id, name,
               IF dupcheck THEN "genre.findFirst" ELSE "genre.update", NoResp, genres)
GenreUpdateFindFirst ==
  IF GenreDuplicate(genres, gop.name, gop.id)
  THEN GenreStep("genre.findFirst", "done", Resp(400, "Genre name already exists"), genres)
  ELSE GenreStep("genre.findFirst", "genre.update", NoResp, genres)
GenreUpdateUpdate ==
  IF ~GenreFound(gop.id) \/ ~GenreNameUnique(genres, gop.name, gop.id)
  THEN \E r \in Unhandled : GenreStep("genre.update", "done", r, genres)
  ELSE GenreStep("genre.update", "done", Resp(200, "Genre updated"),
                 [genres EXCEPT ![gop.id].name = gop.name])

\* DELETE /genres/:id: controller remove, service softDelete
GenreRemove(id) ==
  IF ~GenreFound(id)
  THEN \E r \in Unhandled : GenreOp("remove", id, "", "done", r, genres)
  ELSE GenreOp("remove", id, "", "done", Resp(200, "Genre deleted"),
               [genres EXCEPT ![id].deleted = TRUE])

GenreWriteStep ==
  \/ GenreUpdateFindFirst
  \/ GenreUpdateUpdate

\* --------------------------------------------------------------- Init
InitBooks ==
  [b \in BookIds |->
     IF b = "b1" THEN Row(TitleA, InitStock, 10, "g1", FALSE)
     ELSE IF b = "b2" THEN Row(TitleAB, 1, 25, "g2", FALSE)
     ELSE IF b = "b3" THEN Row(TitleC, 2, 10, "g1", TRUE)
     ELSE NoRow]

InitStore ==
  /\ books = InitBooks
  /\ orders = <<>>
  /\ lock = [b \in BookIds |-> NoLock]
  /\ req = [p \in Clients |-> NoRequest]
  /\ pc = [p \in Clients |-> "idle"]
  /\ idx = [p \in Clients |-> 1]
  /\ pend = [p \in Clients |-> NoPend]
  /\ acc = [p \in Clients |-> <<>>]
  /\ err = [p \in Clients |-> <<>>]
  /\ resp = [p \in Clients |-> NoResp]
  /\ calls = [p \in Clients |-> 0]
  /\ looked = [p \in Clients |-> <<>>]
  /\ before = [p \in Clients |-> [stock |-> StockOf(InitBooks), n |-> 0,
                                    hidden |-> Hidden(InitBooks)]]
  /\ sent = [p \in Clients |-> 0]
  /\ opened = [p \in Clients |-> 0]
  /\ started = 0
  /\ seen = [p \in Clients |-> 0]
  /\ rpc = "idle"
  /\ view = NoView
  /\ reads = 0
  /\ genres = InitGenres
  /\ aop = NoOp
  /\ ares = NoResp
  /\ bookOps = 0
  /\ gop = NoGop
  /\ gres = NoResp
  /\ genreOps = 0

Init ==
  /\ variant \in {1, 2}
  /\ guarded = TRUE
  /\ dupcheck = TRUE
  /\ InitStore

TxStep(p) ==
  \/ FindBook(p)
  \/ UpdateStock(p)
  \/ CreateOrder(p)
  \/ TxCommit(p)
  \/ TxRollback(p)
  \/ StoreFails(p)

Next ==
  \/ \E p \in Clients, b \in RaceBodies :
       CreateTransaction(p, Request(started + 1, TokenOf(p), NoUser, b))
  \/ \E p \in Clients : TxStep(p)

Spec == Init /\ [][Next]_vars

\* ------------------------------------------------- genre requests only
InitGenreSpec ==
  /\ variant = 1
  /\ guarded = TRUE
  /\ dupcheck \in BOOLEAN
  /\ InitStore
NextGenres ==
  \/ \E n \in GenreNames \cup {""} : GenreCreate(n)
  \/ \E g \in GenreIds, n \in GenreNames \cup {""} : GenreUpdate(g, n)
  \/ \E g \in GenreIds : GenreRemove(g)
  \/ GenreWriteStep
SpecGenres == InitGenreSpec /\ [][NextGenres]_vars

\* ------------------- orders placed, then books and genres edited
HistoryBodies == {ArrayOf(<<Item("b1", Whole(1)), Item("b2", Whole(1))>>)}
HistoryUpdates ==
  {[NoBody EXCEPT !.title = TitleD, !.genre_id = "g2", !.price = PriceVal(20)]}
NextHistory ==
  \/ \E b \in HistoryBodies :
       CreateTransaction("p1", Request(started + 1, "u1", NoUser, b))
  \/ TxStep("p1")
  \/ \E b \in HistoryUpdates : UpdateBook("u1", "b1", b)
  \/ DeleteBook("u1", "b1")
  \/ UpdateBookFindFirst
  \/ UpdateBookFindDuplicate
  \/ UpdateBookFindGenre
  \/ UpdateBookUpdate
  \/ DeleteBookFindFirst
  \/ DeleteBookUpdate
  \/ GenreUpdate("g1", "N3")
  \/ GenreRemove("g1")
  \/ GenreWriteStep
SpecHistory == Init /\ [][NextHistory]_vars

\* ------------------------- soft-deleted books read, edited and ordered
NextDeleted ==
  \/ \E b \in OneItem({"b1", "b3"}, {Whole(1)}) :
       CreateTransaction("p1", Request(started + 1, "u1", NoUser, b))
  \/ FindBook("p1")
  \/ UpdateStock("p1")
  \/ CreateOrder("p1")
  \/ TxCommit("p1")
  \/ TxRollback("p1")
  \/ \E id \in {"b1", "b3"} : DeleteBook("u1", id)
  \/ \E id \in {"b1", "b3"} : UpdateBook("u1", id, [NoBody EXCEPT !.stock = NumVal(Whole(1))])
  \/ UpdateBookFindFirst
  \/ UpdateBookUpdate
  \/ DeleteBookFindFirst
  \/ DeleteBookUpdate
  \/ GetBooks("u1")
  \/ GetBooksByGenre("u1", "g1", 1, 10)
  \/ \E id \in {"b1", "b3"} : GetBookById("u1", id)
  \/ GetBooksCount
  \/ GetBooksFindMany
  \/ ByGenreFindUnique
  \/ ByGenreCount
  \/ ByGenreFindMany
  \/ GetBookByIdFindFirst
SpecDeleted == Init /\ [][NextDeleted]_vars

\* ------------------- statistics between order placements and price changes
\* The statistics handler runs while no write is in progress.
Quiet == rpc = "idle"
StatsBodies == OneItem({"b1"}, {Whole(MaxQty)}) \cup TwoItems({"b1", "b2"}, {Whole(1)})
NextStats ==
  \/ \E b \in StatsBodies :
       Quiet /\ CreateTransaction("p1", Request(started + 1, "u1", NoUser, b))
  \/ Quiet /\ FindBook("p1")
  \/ Quiet /\ UpdateStock("p1")
  \/ Quiet /\ CreateOrder("p1")
  \/ Quiet /\ TxCommit("p1")
  \/ Quiet /\ TxRollback("p1")
  \/ Quiet /\ UpdateBook("u1", "b1", [NoBody EXCEPT !.price = PriceVal(15)])
  \/ Quiet /\ UpdateBookFindFirst
  \/ Quiet /\ UpdateBookUpdate
  \/ GetTransactionStatistics("u1")
  \/ StatisticsCount
  \/ StatisticsFindMany
SpecStats == Init /\ [][NextStats]_vars

\* ------------------------- listings page by page, between writes to the store
PageNos == 1..3
Limits == {2, 10}
PagesBody == BookBody(TitleD, NumVal(Whole(1)), PriceVal(10), "past", "g1")
NextPages ==
  \/ Quiet /\ CreateTransaction("p1", Request(started + 1, "u1", NoUser,
                                              ArrayOf(<<Item("b1", Whole(1))>>)))
  \/ Quiet /\ FindBook("p1")
  \/ Quiet /\ UpdateStock("p1")
  \/ Quiet /\ CreateOrder("p1")
  \/ Quiet /\ TxCommit("p1")
  \/ Quiet /\ CreateBook("u1", PagesBody)
  \/ Quiet /\ CreateBookFindFirst
  \/ Quiet /\ CreateBookFindGenre
  \/ Quiet /\ CreateBookCreate
  \/ \E page \in PageNos, limit \in Limits : GetBooksPage("u1", page, limit)
  \/ \E g \in {"g1", "g3"}, page \in PageNos, limit \in Limits :
       GetBooksByGenre("u1", g, page, limit)
  \/ \E page \in PageNos, limit \in Limits : GetAllTransactionsPage("u1", page, limit)
  \/ GetBooksCount
  \/ GetBooksFindMany
  \/ ByGenreFindUnique
  \/ ByGenreCount
  \/ ByGenreFindMany
  \/ GetAllTransactionsFindMany
  \/ GetAllTransactionsCount
SpecPages == Init /\ [][NextPages]_vars

\* ------------------------------------------ GET /books with a query string
FilterQueries ==
  {[NoQuery EXCEPT !.search = sr, !.orderByTitle = ot, !.orderByPublishDate = op,
                   !.title = ti, !.genre_id = g, !.min_price = mn, !.sort_by = sb,
                   !.order = od] :
     sr \in {<<>>, <<"b">>, <<"w">>}, ot \in {"", "asc", "up"}, op \in {"", "asc"},
     ti \in {<<>>, <<"b">>}, g \in {"", "g2"},
     mn \in {NotNum("undefined"), NumVal(Whole(20))},
     sb \in {"", "title"}, od \in {"", "asc"}}
NextFilters ==
  \/ \E q \in FilterQueries : GetBooksQuery("u1", q)
  \/ GetBooksCount
  \/ GetBooksFindMany
SpecFilters == Init /\ [][NextFilters]_vars

\* ------------------------------------------- one request, any body
\* One client sends one request against the initial catalogue; the store
\* answers every call.
AllIds == BookIds \cup {"bX"}
BadItems ==
  {[book_id |-> b, quantity |-> NumVal(Whole(1))] :
     b \in {NotStr("undefined"), NotStr("number"), StrVal(""), StrVal(" ")}}
  \cup
  {[book_id |-> StrVal("b1"), quantity |-> q] :
     q \in {NotNum("undefined"), NotNum("string"), NumVal(0), NumVal(0 - 2),
            NumVal(1), NumVal(3)}}
InvalidBodies ==
  {NotArray("undefined"), NotArray("object"), ArrayOf(<<>>)}
  \cup {ArrayOf(<<i>>) : i \in BadItems}
  \cup {ArrayOf(<<Item("b1", Whole(1)), i>>) : i \in BadItems}
ValidBodies == OneItem(AllIds, Quantities) \cup TwoItems(AllIds, Quantities)
InputRequests ==
  {Request(1, t, u, b) : t \in Users \cup {"none", "bad"},
                         u \in Users \cup {NoUser},
                         b \in ValidBodies \cup InvalidBodies}

NextInputs ==
  \/ \E r \in InputRequests : started = 0 /\ CreateTransaction("p1", r)
  \/ FindBook("p1")
  \/ UpdateStock("p1")
  \/ CreateOrder("p1")
  \/ TxCommit("p1")
  \/ TxRollback("p1")

SpecInputs == Init /\ [][NextInputs]_vars

\* --------------------------------------- orders placed while readers read
ReaderBodies == OneItem({"b1"}, Quantities) \cup TwoItems({"b1", "b2"}, {Whole(1)})
NextReaders ==
  \/ \E b \in ReaderBodies :
       CreateTransaction("p1", Request(started + 1, "u1", NoUser, b))
  \/ TxStep("p1")
  \/ GetBooks("u1")
  \/ \E id \in {"b1", "b3"} : GetBookById("u1", id)
  \/ GetAllTransactions("u1")
  \/ GetTransactionStatistics("u1")
  \/ ReadQuery

SpecReaders == Init /\ [][NextReaders]_vars

\* ------------------------- the catalogue edited while orders are placed
CatalogBodies == OneItem({"b1"}, Quantities)
GoodBook == BookBody(TitleD, NumVal(Whole(1)), PriceVal(10), "past", "g1")
CreateBodies ==
  {GoodBook,
   [GoodBook EXCEPT !.title = TitleA],
   [GoodBook EXCEPT !.title = TitleC],
   [GoodBook EXCEPT !.stock = NumVal(0 - 2)],
   [GoodBook EXCEPT !.stock = NumVal(1)],
   [GoodBook EXCEPT !.stock = NotNum("undefined")],
   [GoodBook EXCEPT !.price = PriceVal(0 - 1)],
   [GoodBook EXCEPT !.year = "future"],
   [GoodBook EXCEPT !.genre_id = "g2"],
   [GoodBook EXCEPT !.genre_id = "g3"]}
UpdateBodies ==
  {[NoBody EXCEPT !.stock = NumVal(Whole(q))] : q \in 0..InitStock}
  \cup
  {[NoBody EXCEPT !.stock = NumVal(0 - 2)],
   [NoBody EXCEPT !.stock = NumVal(3)],
   [NoBody EXCEPT !.stock = NotNum("string")],
   [NoBody EXCEPT !.title = TitleAB],
   [NoBody EXCEPT !.title = TitleC],
   [NoBody EXCEPT !.title = TitleD],
   [NoBody EXCEPT !.price = PriceVal(0 - 1)],
   [NoBody EXCEPT !.price = PriceVal(20)],
   [NoBody EXCEPT !.year = "future"],
   [NoBody EXCEPT !.genre_id = "g2"],
   [NoBody EXCEPT !.genre_id = "g3"],
   [NoBody EXCEPT !.genre_id = "g1", !.title = TitleD]}

NextCatalog ==
  \/ \E b \in CatalogBodies :
       CreateTransaction("p1", Request(started + 1, "u1", NoUser, b))
  \/ TxStep("p1")
  \/ \E b \in CreateBodies : CreateBook("u1", b)
  \/ \E id \in {"b1", "b3"}, b \in UpdateBodies : UpdateBook("u1", id, b)
  \/ \E id \in {"b1", "b3"} : DeleteBook("u1", id)
  \/ BookWriteStep

SpecCatalog == Init /\ [][NextCatalog]_vars

\* ------------------------------- book writes naming a genre, genre deletions
GenreRefCreates ==
  {GoodBook, [GoodBook EXCEPT !.genre_id = "g2"], [GoodBook EXCEPT !.genre_id = "g3"]}
GenreRefUpdates ==
  {[NoBody EXCEPT !.genre_id = "g2"],
   [NoBody EXCEPT !.genre_id = "g3"],
   [NoBody EXCEPT !.genre_id = "g1", !.title = TitleD],
   [NoBody EXCEPT !.stock = NumVal(Whole(1))]}
NextGenreRef ==
  \/ CreateTransaction("p1", Request(started + 1, "u1", NoUser,
                                     ArrayOf(<<Item("b1", Whole(1))>>)))
  \/ FindBook("p1")
  \/ UpdateStock("p1")
  \/ CreateOrder("p1")
  \/ TxCommit("p1")
  \/ \E b \in GenreRefCreates : CreateBook("u1", b)
  \/ \E b \in GenreRefUpdates : UpdateBook("u1", "b1", b)
  \/ CreateBookFindFirst
  \/ CreateBookFindGenre
  \/ CreateBookCreate
  \/ UpdateBookFindFirst
  \/ UpdateBookFindDuplicate
  \/ UpdateBookFindGenre
  \/ UpdateBookUpdate
  \/ \E g \in {"g1", "g2"} : GenreRemove(g)
SpecGenreRef == Init /\ [][NextGenreRef]_vars

\* ------------------------------ every endpoint, with and without a token
InitAuth ==
  /\ variant \in {1, 2}
  /\ guarded \in BOOLEAN
  /\ dupcheck = TRUE
  /\ InitStore

Tokens == {"u1", "none", "bad"}
NextAuth ==
  \/ \E t \in Tokens :
       CreateTransaction("p1", Request(started + 1, t, NoUser, ArrayOf(<<Item("b1", Whole(1))>>)))
  \/ TxStep("p1")
  \/ \E t \in Tokens : CreateBook(t, GoodBook)
  \/ \E t \in Tokens : UpdateBook(t, "b1", [NoBody EXCEPT !.title = TitleD, !.genre_id = "g1"])
  \/ \E t \in Tokens : DeleteBook(t, "b1")
  \/ BookWriteStep
  \/ \E t \in Tokens : GetBooks(t)
  \/ \E t \in Tokens : GetBookById(t, "b1")
  \/ \E t \in Tokens : GetAllTransactions(t)
  \/ \E t \in Tokens : GetTransactionStatistics(t)
  \/ ReadQuery

SpecAuth == InitAuth /\ [][NextAuth]_vars

\* ================================================================ claims
Done(p) == pc[p] = "done" /\ req[p].rid > 0
Authenticated(p) == req[p].token \in Users

\* --- what the specification asks of one order, computed from the request
\* and the catalogue as it was when the request began
ItemId(it) == it.book_id.s
ItemQty(it) == it.quantity.h \div 2
OnSale(id) == id \in BookIds /\ books[id].exists /\ ~books[id].deleted

\* a body the specification accepts: a non-empty array of items, each with
\* a non-blank string book_id and a finite integer quantity >= 1
GoodItem(it) ==
  /\ it.book_id.t = "string" /\ it.book_id.s \notin {"", " "}
  /\ it.quantity.t = "number" /\ it.quantity.h % 2 = 0 /\ it.quantity.h >= 2
GoodBody(items) ==
  /\ items.t = "array" /\ Len(items.a) >= 1
  /\ \A i \in 1..Len(items.a) : GoodItem(items.a[i])

\* stock left for each book after the first n items of a were taken
RECURSIVE Taken(_, _, _)
Taken(a, n, id) ==
  IF n = 0 THEN 0
  ELSE Taken(a, n - 1, id) + (IF ItemId(a[n]) = id THEN ItemQty(a[n]) ELSE 0)
LeftFor(p, n, id) == before[p].stock[id] - Taken(req[p].items.a, n, id)

\* item i fails: its book is absent or soft-deleted, or the stock left by
\* the items before it is below its quantity
ItemFails(p, i) ==
  LET it == req[p].items.a[i] IN
  \/ ~OnSale(ItemId(it))
  \/ LeftFor(p, i - 1, ItemId(it)) < ItemQty(it)
FirstFailing(p) == Least({i \in 1..Len(req[p].items.a) : ItemFails(p, i)})

OrdersOf(p) == {k \in 1..Len(orders) : orders[k].rid = req[p].rid}
StoreAsBefore(p) == StockOf(books) = before[p].stock /\ Len(orders) = before[p].n

\* C2: a failed order changes nothing: when a request has ended with any
\* response other than 201, every book's stock is what it was when the
\* request began and no order has been added.
C2_AllOrNothing ==
  \A p \in Clients :
    (Done(p) /\ resp[p].status # 201) => StoreAsBefore(p)
\* a two-item order whose first item was decremented and whose second failed
C2_Witness ==
  /\ Done("p1") /\ resp["p1"].status \in {400, 404}
  /\ Len(acc["p1"]) = 1 /\ Len(looked["p1"]) = 2

\* C3: a valid order whose every item has sufficient stock commits: its
\* response is 201, each book's stock is lower by exactly the quantity
\* ordered of it, and exactly one order was added, linked to the caller and
\* owning one order item per requested item with its book_id and quantity.
C3_ValidOrderCommits ==
  \A p \in Clients :
    (Done(p) /\ Authenticated(p) /\ GoodBody(req[p].items) /\ FirstFailing(p) = 0) =>
      LET a == req[p].items.a IN
      /\ resp[p].status = 201
      /\ \A b \in BookIds : books[b].stock = LeftFor(p, Len(a), b)
      /\ Len(orders) = before[p].n + 1
      /\ Cardinality(OrdersOf(p)) = 1
      /\ \A k \in OrdersOf(p) :
           /\ orders[k].user_id = req[p].token
           /\ Len(orders[k].order_items) = Len(a)
           /\ \A i \in 1..Len(a) :
                /\ orders[k].order_items[i].book_id = ItemId(a[i])
                /\ orders[k].order_items[i].quantity = ItemQty(a[i])
\* a committed two-item order naming the same book twice
C3_Witness ==
  /\ Done("p1") /\ resp["p1"].status = 201
  /\ Len(req["p1"].items.a) = 2
  /\ books["b1"].stock = InitStock - 2

\* C6: a request whose body the specification rejects is answered 400 or
\* 422 without a single database call and with the store unchanged.
C6_RejectedBeforeStore ==
  \A p \in Clients :
    (req[p].rid > 0 /\ Authenticated(p) /\ ~GoodBody(req[p].items)) =>
      /\ calls[p] = 0
      /\ pc[p] = "done"
      /\ resp[p].status \in {400, 422}
      /\ StoreAsBefore(p)

\* C8: the user_id of a created order is the user of the authenticated
\* session, whatever user_id the body carries.
C8_OrderUserFromSession ==
  \A p \in Clients :
    (Done(p) /\ resp[p].status = 201) =>
      \A k \in OrdersOf(p) : orders[k].user_id = req[p].token
\* an order was created for a request whose body names another user
C8_Witness ==
  /\ Done("p1") /\ resp["p1"].status = 201
  /\ req["p1"].user_id \in Users /\ req["p1"].user_id # req["p1"].token
  /\ OrdersOf("p1") # {}

\* C9: the items are looked up in input order up to and including the
\* first failing one, and the failure reported is that item's: 404 when
\* its book is absent or soft-deleted, otherwise 400 carrying the book's
\* title, the stock available at check time and the requested quantity.
C9_FirstFailureReported ==
  \A p \in Clients :
    (Done(p) /\ Authenticated(p) /\ GoodBody(req[p].items)) =>
      LET a == req[p].items.a
          f == FirstFailing(p)
          n == IF f = 0 THEN Len(a) ELSE f
      IN /\ looked[p] = [i \in 1..n |-> ItemId(a[i])]
         /\ f # 0 =>
              IF ~OnSale(ItemId(a[f]))
              THEN resp[p].status = 404
              ELSE /\ resp[p].status = 400
                   /\ resp[p].a = books[ItemId(a[f])].title
                   /\ resp[p].b = <<ToString(LeftFor(p, f - 1, ItemId(a[f])))>>
                   /\ resp[p].c = <<ToString(ItemQty(a[f]))>>

\* --- two clients ordering concurrently
TotalOf(p, b) == Taken(req[p].items.a, Len(req[p].items.a), b)
Committed(p) == Done(p) /\ resp[p].status = 201
\* neither request saw the other's commit when it began
Concurrent(p, q) == p # q /\ before[p] = before[q]

\* C1: two concurrent orders never both succeed when together they ask
\* for more of a book than its stock held when they began.
C1_NoOversell ==
  \A p \in Clients, q \in Clients, b \in BookIds :
    (Committed(p) /\ Committed(q) /\ Concurrent(p, q)) =>
      TotalOf(p, b) + TotalOf(q, b) <= before[p].stock[b]

\* units of book b in the order items of the committed orders
RECURSIVE SoldIn(_, _, _)
SoldIn(os, k, b) ==
  IF k = 0 THEN 0
  ELSE SoldIn(os, k - 1, b)
       + Taken([i \in 1..Len(os[k].order_items) |->
                  [book_id |-> StrVal(os[k].order_items[i].book_id),
                   quantity |-> NumVal(Whole(os[k].order_items[i].quantity))]],
               Len(os[k].order_items), b)
Sold(b) == SoldIn(orders, Len(orders), b)

\* C10: the response agrees with the store.  A request sends at most one
\* response and opens at most one transaction; once it has ended it has
\* sent exactly one, 201 exactly when its order is in the store, and a
\* failure status only when nothing of it is: no order of it, no row lock,
\* no pending write, and every book's stock accounted for by the committed
\* orders alone.
C10_ResponseAgreesWithStore ==
  \A p \in Clients :
    /\ sent[p] <= 1 /\ opened[p] <= 1
    /\ Serving(p) => sent[p] = 0
    /\ Done(p) =>
         /\ sent[p] = 1
         /\ resp[p].status \in {201, 400, 401, 404, 422, 500}
         /\ resp[p].status = 201 <=> Cardinality(OrdersOf(p)) = 1
         /\ resp[p].status # 201 => OrdersOf(p) = {}
         /\ pend[p] = NoPend /\ \A b \in BookIds : lock[b] # p
         /\ \A b \in BookIds : books[b].stock = InitBooks[b].stock - Sold(b)
\* one request ended 500 after a decrement, the other committed
C10_Witness ==
  /\ Done("p1") /\ resp["p1"].status = 500 /\ Len(acc["p1"]) >= 1
  /\ Committed("p2")

\* C4: every book's stock_quantity is at least 0 in every reachable state,
\* whatever createBook, updateBook, deleteBook and createTransaction
\* requests ran and however they interleaved.
C4_StockNeverNegative ==
  \A b \in BookIds : books[b].exists => books[b].stock >= 0

C7_AuthRequired ==
  /\ \A p \in Clients :
       (req[p].rid > 0 /\ req[p].token \notin Users) =>
         pc[p] = "done" /\ resp[p].status = 401 /\ calls[p] = 0
  /\ (view.kind # "none" /\ view.token \notin Users) =>
       view.kind = "denied" /\ view.status = 401
  /\ (aop.op # "none" /\ aop.token \notin Users) =>
       aop.pc = "done" /\ ares.status = 401

\* C11: every write of an order placement is issued inside the one
\* transaction opened for its request.  A request opens at most one
\* transaction; a decrement is written only by a request that is inside its
\* transaction, and stays pending there; the committed books and orders
\* change only in the step that commits a transaction, which applies exactly
\* that transaction's decrements and adds exactly its order.
C11_WritesInsideOneTransaction ==
  [][/\ \A p \in Clients :
          /\ opened'[p] <= 1
          /\ pend'[p] # pend[p] /\ pend'[p] # NoPend =>
                opened[p] = 1 /\ pc[p] = "update" /\ books' = books
     /\ (books' # books \/ orders' # orders) =>
          \E p \in Clients :
            /\ pc[p] = "commit" /\ pc'[p] = "done" /\ opened[p] = 1
            /\ books' = ApplyPending(books, pend[p])
            /\ orders' = Append(orders, NewOrder(p))]_vars
\* a committed order of two items, placed through one transaction
C11_Witness ==
  /\ Committed("p1") /\ Len(acc["p1"]) = 2 /\ opened["p1"] = 1
  /\ Len(orders) >= 1

\* C19: genre names are unique among the non-deleted genres only.  No two
\* non-deleted genres share a name; a create or update whose name a
\* non-deleted genre holds is answered 409 / 400 with the table unchanged;
\* any other create or update of an existing genre succeeds, also when a
\* soft-deleted genre holds the name.
C19_GenreNamesUniqueAmongLive ==
  /\ \A g \in GenreIds, h \in GenreIds :
       (g # h /\ genres[g].exists /\ genres[h].exists
        /\ ~genres[g].deleted /\ ~genres[h].deleted) => genres[g].name # genres[h].name
  /\ (gop.pc = "done" /\ gop.op \in {"create", "update"} /\ ~InvalidName(gop.name)) =>
       IF GenreDuplicate(gop.was, gop.name, gop.id)
       THEN gres.status \in {400, 409} /\ genres = gop.was
       ELSE (gop.op = "update" => gop.id \in GenreIds /\ gop.was[gop.id].exists) =>
              /\ gres.status \in {200, 201}
              /\ gop.id \in GenreIds /\ genres[gop.id].name = gop.name

C13_DeletedBooksInvisible ==
  /\ [](/\ view.kind \in {"getBooks", "getBooksByGenre"} /\ rpc \notin {"idle"} =>
            view.counted \cap view.hidden = {}
        /\ view.kind \in {"getBooks", "getBooksByGenre", "getBookById"}
            /\ view.status = 200 => view.rows \cap view.hidden = {}
        /\ (aop.pc = "done" /\ aop.op \in {"updateBook", "deleteBook"}
             /\ aop.id \in Hidden(aop.was)) => ares.status = 404
        /\ \A p \in Clients :
             (Done(p) /\ Authenticated(p) /\ GoodBody(req[p].items)
              /\ ItemId(req[p].items.a[1]) \in before[p].hidden) =>
               resp[p].status = 404)
  /\ [][\A b \in BookIds : b \in Hidden(books) => b \in Hidden(books')]_vars

\* --- statistics, recomputed from the orders the handler read
StatsDone == view.kind = "getTransactionStatistics" /\ rpc = "idle"
ReadItems == AllItems(orders, view.n)
\* units of book b among the items read
UnitsOf(b) == SoldIn(orders, view.n, b)
SumBooks(f) == f["b1"] + f["b2"] + f["b3"] + f["b4"]

\* C14: totalRevenue is the sum over the order items of quantity times the
\* book's price at the time of the statistics call, and totalTransactions
\* is the number of the orders summed: a price changed after an order
\* changes what that order contributes.
C14_RevenueAtCurrentPrice ==
  (StatsDone /\ view.status = 200) =>
    /\ view.total = view.n
    /\ view.revenue = SumBooks([b \in BookIds |-> UnitsOf(b) * view.prices[b]])

\* C15: averageTransactionAmount is totalRevenue / totalTransactions rounded
\* to the nearest integer (half up) when there are transactions and 0 when
\* there are none; the call answers 200 either way.
C15_AverageRounded ==
  StatsDone =>
    /\ view.status = 200
    /\ view.total = 0 => view.avg = 0
    /\ view.total > 0 =>
         /\ 2 * view.avg * view.total <= 2 * view.revenue + view.total
         /\ 2 * view.revenue + view.total < 2 * (view.avg + 1) * view.total
\* statistics answered with no order in the store
C15_Witness ==
  StatsDone /\ view.status = 200 /\ view.total = 0 /\ view.avg = 0 /\ orders = <<>>

\* the genre of an item's book, and the totals of a genre over the items
GenreOfItem(it) == books[it.book_id].genre_id
PriceOfItem(it) == IF variant = 1 THEN view.prices[it.book_id] ELSE it.priceAtPurchase
GenresSold == {GenreOfItem(ReadItems[i]) : i \in 1..Len(ReadItems)}
RECURSIVE GenreSold(_, _)
GenreSold(g, n) ==
  IF n = 0 THEN 0
  ELSE GenreSold(g, n - 1)
       + (IF GenreOfItem(ReadItems[n]) = g THEN ReadItems[n].quantity ELSE 0)
RECURSIVE GenreRevenue(_, _)
GenreRevenue(g, n) ==
  IF n = 0 THEN 0
  ELSE GenreRevenue(g, n - 1)
       + (IF GenreOfItem(ReadItems[n]) = g
          THEN ReadItems[n].quantity * PriceOfItem(ReadItems[n]) ELSE 0)
FirstMet(g) == Least({i \in 1..Len(ReadItems) : GenreOfItem(ReadItems[i]) = g})
RollupOf(g) ==
  [genreName |-> genres[g].name, totalSold |-> GenreSold(g, Len(ReadItems)),
   totalRevenue |-> GenreRevenue(g, Len(ReadItems))]

\* C16: per genre, totalSold is the sum of the quantities and totalRevenue
\* the sum of quantity times price of its items; genreWithMostSales and
\* genreWithLeastSales are the entries with the largest and the smallest
\* totalSold, the genre met first winning a tie; with no order items both
\* are the "No data" sentinel.
C16_GenreRollup ==
  (StatsDone /\ view.status = 200) =>
    IF ReadItems = <<>> THEN view.most = NoData /\ view.least = NoData
    ELSE /\ \E g \in GenresSold :
              /\ view.most = RollupOf(g)
              /\ \A h \in GenresSold :
                   /\ RollupOf(h).totalSold <= RollupOf(g).totalSold
                   /\ RollupOf(h).totalSold = RollupOf(g).totalSold => FirstMet(g) <= FirstMet(h)
         /\ \E g \in GenresSold :
              /\ view.least = RollupOf(g)
              /\ \A h \in GenresSold :
                   /\ RollupOf(h).totalSold >= RollupOf(g).totalSold
                   /\ RollupOf(h).totalSold = RollupOf(g).totalSold => FirstMet(g) <= FirstMet(h)
\* two genres tied on totalSold: the one met first is reported as both
C16_Witness ==
  /\ StatsDone /\ view.status = 200 /\ Cardinality(GenresSold) = 2
  /\ view.most.totalSold = view.least.totalSold /\ view.most = view.least

\* --- listings, compared with the rows that matched when the handler read
PagedDone ==
  /\ view.kind \in {"getBooks", "getBooksByGenre", "getAllTransactions"}
  /\ rpc = "idle" /\ view.status = 200
\* the matching rows: books by id, orders by their position in the table
Matching == IF view.kind = "getAllTransactions" THEN 1..view.n ELSE view.counted
BookNo(b) == CASE b = "b1" -> 1 [] b = "b2" -> 2 [] b = "b3" -> 3 [] b = "b4" -> 4
\* position of a row in the listing, newest first, counted from 1
RankOf(r) ==
  IF view.kind = "getAllTransactions" THEN view.n + 1 - r
  ELSE Cardinality({c \in Matching : BookNo(c) >= BookNo(r)})
PagesHolding(r) ==
  {pg \in 1..view.pages :
     \E i \in 1..view.limit : RankOf(r) = (pg - 1) * view.limit + i}

\* C17: a listing with page >= 1 and limit >= 1 reports total = the number
\* of matching rows and total_pages = ceil(total / limit); a page beyond
\* total_pages is empty; the item at position i of page p is the row of rank
\* (p - 1) * limit + i, a full page below the last and the remainder on
\* the last, so that pages 1..total_pages hold each matching row exactly once.
C17_Pagination ==
  PagedDone =>
    /\ view.total = Cardinality(Matching)
    /\ view.pages * view.limit >= view.total
    /\ (view.pages - 1) * view.limit < view.total
    /\ view.page > view.pages => view.items = <<>>
    /\ view.page < view.pages => Len(view.items) = view.limit
    /\ view.page = view.pages =>
         Len(view.items) = view.total - (view.pages - 1) * view.limit
    /\ \A i \in 1..Len(view.items) :
         /\ view.items[i] \in Matching
         /\ RankOf(view.items[i]) = (view.page - 1) * view.limit + i
    /\ \A r \in Matching : Cardinality(PagesHolding(r)) = 1
\* a page beyond the last of a listing that has rows
C17_Witness ==
  /\ PagedDone /\ view.total > 0 /\ view.pages >= 1
  /\ view.page > view.pages /\ view.items = <<>>

\* --- book titles
\* what a title lookup can tell apart: title, existence and deleted_at
TitleRows(bs) == [b \in BookIds |-> <<bs[b].title, bs[b].exists, bs[b].deleted>>]
\* a non-deleted book other than the written one held the requested title
TitleCollides ==
  /\ aop.body.title # <<>>
  /\ \E b \in BookIds \ {aop.id} :
       aop.was[b].exists /\ ~aop.was[b].deleted /\ aop.was[b].title = aop.body.title
\* a create that nothing but its title could stop
CreateAcceptable ==
  /\ aop.op = "createBook"
  /\ BooksGuard(aop.token).status = 0
  /\ ValidateCreate(aop.body).status = 0
  /\ aop.body.price.t = "number" /\ aop.body.year # "undefined"
  /\ aop.body.genre_id \in GenreIds /\ genres[aop.body.genre_id].exists
  /\ \E b \in BookIds : ~aop.was[b].exists

\* C18: titles are unique among the non-deleted books.  No two non-deleted
\* books share a title; a create or title update that collides with a
\* non-deleted book is rejected and leaves every title as it was; a create
\* whose title is held by no non-deleted book succeeds, also when a
\* soft-deleted book holds the title.
C18_TitlesUniqueAmongLive ==
  /\ \A a \in BookIds, b \in BookIds :
       (a # b /\ books[a].exists /\ books[b].exists
        /\ ~books[a].deleted /\ ~books[b].deleted) => books[a].title # books[b].title
  /\ (aop.pc = "done" /\ aop.op \in {"createBook", "updateBook"} /\ TitleCollides) =>
       ares.status >= 400 /\ TitleRows(books) = TitleRows(aop.was)
  /\ (aop.pc = "done" /\ CreateAcceptable /\ ~TitleCollides) =>
       /\ ares.status = 201
       /\ \E b \in BookIds :
            books[b].exists /\ ~books[b].deleted /\ books[b].title = aop.body.title

\* --- the genre of a book
\* the books table without the stock column, which orders change
NoStock(bs) == [b \in BookIds |-> [bs[b] EXCEPT !.stock = 0]]
\* the request named a genre id that no genre row has
GenreMissing ==
  /\ aop.body.genre_id # ""
  /\ ~(aop.body.genre_id \in GenreIds /\ genres[aop.body.genre_id].exists)
\* the request passed every check that comes before the genre lookup
ReachesGenreLookup ==
  /\ BooksGuard(aop.token).status = 0
  /\ ~TitleCollides
  /\ \/ aop.op = "createBook" /\ ValidateCreate(aop.body).status = 0
     \/ /\ aop.op = "updateBook" /\ ValidateUpdate(aop.body).status = 0
        /\ aop.id \in BookIds /\ aop.was[aop.id].exists /\ ~aop.was[aop.id].deleted

\* C20: a book's genre_id references an existing genre at write time.
\* createBook, and updateBook when it gives a genre_id, answer 404
\* 'Genre not found' and leave the books as they were when no genre row
\* has that id; every book row points at a genre row that exists.
C20_GenreExistsAtWrite ==
  /\ (aop.pc = "done" /\ ReachesGenreLookup /\ GenreMissing) =>
       /\ ares = Resp(404, "Genre not found")
       /\ NoStock(books) = NoStock(aop.was)
  /\ \A b \in BookIds :
       books[b].exists => books[b].genre_id \in GenreIds /\ genres[books[b].genre_id].exists
\* an update naming a genre that does not exist, answered 404
C20_Witness ==
  /\ aop.pc = "done" /\ aop.op = "updateBook" /\ ReachesGenreLookup /\ GenreMissing
  /\ ares = Resp(404, "Genre not found") /\ NoStock(books) = NoStock(aop.was)

\* --- the filters and the sort of GET /books
\* the request gave only parameters the listing is specified to support
FilterDone ==
  /\ view.kind = "getBooks" /\ rpc = "idle" /\ view.status = 200
  /\ view.query.search = <<>>
  /\ view.query.orderByTitle = "" /\ view.query.orderByPublishDate = ""
\* part occurs in str, letters compared without case
Occurs(str, part) ==
  \E i \in 0..(Len(str) - Len(part)) :
     \A k \in 1..Len(part) : Lower(str[i + k]) = Lower(part[k])
Satisfying ==
  {b \in BookIds :
     /\ books[b].exists /\ ~books[b].deleted
     /\ view.query.title # <<>> => Occurs(books[b].title, view.query.title)
     /\ view.query.genre_id # "" => books[b].genre_id = view.query.genre_id
     /\ view.query.min_price.t = "number" => 2 * books[b].price >= view.query.min_price.h
     /\ view.query.max_price.t = "number" => 2 * books[b].price <= view.query.max_price.h}
\* a comes before b in the requested order
Sorted(a, b) ==
  IF view.query.sort_by = "title"
  THEN IF view.query.order = "asc" THEN StrLess(books[a].title, books[b].title)
       ELSE StrLess(books[b].title, books[a].title)
  ELSE IF view.query.order = "asc" THEN BookNo(a) < BookNo(b)
       ELSE BookNo(b) < BookNo(a)

\* C21: getBooks returns exactly the non-deleted books that satisfy every
\* filter the request supplies (title substring without case, genre_id,
\* price range), each once, sorted by the requested field and direction,
\* created_at desc by default.
C21_FiltersAndSort ==
  (FilterDone /\ view.page = 1 /\ view.limit = 10) =>
    /\ Range(view.items) = Satisfying
    /\ Len(view.items) = Cardinality(Satisfying)
    /\ view.total = Cardinality(Satisfying)
    /\ \A i \in 1..Len(view.items), j \in 1..Len(view.items) :
         i < j => Sorted(view.items[i], view.items[j])

\* C22: stock is conserved.  In every state reached by interleaved
\* createTransaction requests, each book's initial stock equals its
\* committed stock plus the quantities of the committed order items that
\* name it.
C22_StockConserved ==
  \A b \in BookIds : InitBooks[b].stock = books[b].stock + Sold(b)
\* two concurrent orders of the last unit of b2, both committed
C22_Witness ==
  /\ Len(orders) = 2 /\ Sold("b2") = 2
  /\ books["b2"].stock = InitBooks["b2"].stock - 2
  /\ Committed("p1") /\ Committed("p2")

\* --- one order naming the same book twice
TwiceSame(p) ==
  /\ Done(p) /\ Authenticated(p) /\ GoodBody(req[p].items)
  /\ Len(req[p].items.a) = 2
  /\ ItemId(req[p].items.a[1]) = ItemId(req[p].items.a[2])
  /\ OnSale(ItemId(req[p].items.a[1]))
\* the error thrown for a book with `left` units when `asked` are requested
ShortOf(id, left, asked) ==
  <<"INSUFFICIENT_STOCK", ":">> \o books[id].title
    \o <<":", ToString(left), ":", ToString(asked)>>

\* C23: an order naming the same book twice is checked cumulatively.  It
\* succeeds exactly when the stock is at least the sum of the two
\* quantities; then the stock drops by the sum and the order owns one item
\* per entry.  When the first entry fits and the second exceeds what the
\* first left, the order fails with INSUFFICIENT_STOCK carrying the amount
\* left, and the store is unchanged.
C23_SameBookTwice ==
  \A p \in Clients :
    TwiceSame(p) =>
      LET id == ItemId(req[p].items.a[1])
          q1 == ItemQty(req[p].items.a[1])
          q2 == ItemQty(req[p].items.a[2])
          had == before[p].stock[id]
      IN /\ (resp[p].status = 201) <=> (had >= q1 + q2)
         /\ had >= q1 + q2 =>
              /\ books[id].stock = had - (q1 + q2)
              /\ \E k \in 1..Len(orders) :
                   /\ orders[k].rid = req[p].rid
                   /\ Len(orders[k].order_items) = 2
                   /\ orders[k].order_items[1].book_id = id
                   /\ orders[k].order_items[2].book_id = id
                   /\ orders[k].order_items[1].quantity = q1
                   /\ orders[k].order_items[2].quantity = q2
         /\ (q1 <= had /\ had < q1 + q2) =>
              /\ resp[p].status = 400
              /\ err[p] = ShortOf(id, had - q1, q2)
              /\ StoreAsBefore(p)
         /\ had < q1 =>
              /\ resp[p].status = 400
              /\ err[p] = ShortOf(id, had, q1)
              /\ StoreAsBefore(p)
\* two entries of two units of a book with three: the second finds one left
C23_Witness ==
  /\ TwiceSame("p1") /\ ItemId(req["p1"].items.a[1]) = "b1"
  /\ ItemQty(req["p1"].items.a[1]) = 2 /\ ItemQty(req["p1"].items.a[2]) = 2
  /\ before["p1"].stock["b1"] = 3
  /\ resp["p1"].status = 400 /\ err["p1"] = ShortOf("b1", 1, 2)
  /\ StoreAsBefore("p1")

\* the books named by the items of the orders after the first n
NamedSince(os, n) ==
  UNION {{os[k].order_items[i].book_id : i \in 1..Len(os[k].order_items)} :
           k \in (n + 1)..Len(os)}

\* C24: a soft-deleted book is frozen.  No step changes the row of a book
\* whose deleted_at is set, and no order committed while it is set has an
\* item naming it.
C24_DeletedBookFrozen ==
  [][\A b \in BookIds :
       (books[b].exists /\ books[b].deleted) =>
         /\ books'[b] = books[b]
         /\ b \notin NamedSince(orders', Len(orders))]_vars

\* revenue of the first k orders, at the prices of the books
RevenueOfFirst(k) ==
  SumBooks([b \in BookIds |-> SoldIn(orders, k, b) * books[b].price])

\* C25: the figures of one statistics call describe one set of orders: the
\* orders counted in totalTransactions are the orders whose items make up
\* the per-genre totals, and totalRevenue is the revenue of those orders.
C25_OneSetOfOrders ==
  (StatsDone /\ view.status = 200) =>
    /\ view.total = view.n
    /\ view.revenue = RevenueOfFirst(view.total)
====
